---- MODULE Spec2Model ----
(***************************************************************************)
(* A model of IntelliGallery's Flask service (src/app.py): the fuzzy word  *)
(* matcher, the query parser and search loop of GET /search, and the       *)
(* record store / upload folder as changed by POST /upload and             *)
(* DELETE /image/<id>.                                                     *)
(*                                                                         *)
(* Python strings are modelled as sequences of one-character strings, so   *)
(* that strip, split, lower, upper, rsplit and the substring test are      *)
(* computed rather than assumed.                                           *)
(***************************************************************************)
EXTENDS Integers, Sequences, FiniteSets, TLC

VARIABLES
    word,            \* is_fuzzy_match: the word argument
    term,            \* is_fuzzy_match: the term argument
    edits,           \* number of single-character edits that led from term to word
    fuzzy,           \* value returned by the last is_fuzzy_match(word, term)
    query,           \* GET /search: the raw q parameter
    search_type,     \* search_images: mode chosen by the parser ("AND" / "OR" / "none")
    search_terms,    \* search_images: the parsed term list
    images,          \* the images table: id -> row
    seq,             \* sqlite_sequence of the AUTOINCREMENT key: largest id ever committed
    files,           \* the upload folder: file name -> bytes
    response,        \* the last HTTP response: [status, body]
    request,         \* the last HTTP request: [op, ...]
    inserted,        \* history: for each row an upload left in the table, what that upload was
    nreq             \* number of upload requests made so far (also names their bytes)

vars == <<word, term, edits, fuzzy, query, search_type, search_terms,
          images, seq, files, response, request, inserted, nreq>>

fuzzyVars == <<word, term, edits, fuzzy>>
searchVars == <<query, search_type, search_terms>>
storeVars == <<images, seq, files, inserted, nreq>>

----------------------------------------------------------------------------
(* Characters and Python string primitives *)

LowerLetters ==
    <<"a","b","c","d","e","f","g","h","i","j","k","l","m",
      "n","o","p","q","r","s","t","u","v","w","x","y","z">>

UpperLetters ==
    <<"A","B","C","D","E","F","G","H","I","J","K","L","M",
      "N","O","P","Q","R","S","T","U","V","W","X","Y","Z">>

\* str.isspace for the characters the model uses
Whitespace == {" ", "\t"}

Letters == 1..Len(LowerLetters)

\* the case mappings of the letters, as tables
ToLower == [c \in {UpperLetters[i] : i \in Letters} |->
               LowerLetters[CHOOSE i \in Letters : UpperLetters[i] = c]]

ToUpper == [c \in {LowerLetters[i] : i \in Letters} |->
               UpperLetters[CHOOSE i \in Letters : LowerLetters[i] = c]]

LowerChar(c) == IF c \in DOMAIN ToLower THEN ToLower[c] ELSE c

UpperChar(c) == IF c \in DOMAIN ToUpper THEN ToUpper[c] ELSE c

\* str.lower()
Lower(s) == [i \in 1..Len(s) |-> LowerChar(s[i])]

\* str.upper()
Upper(s) == [i \in 1..Len(s) |-> UpperChar(s[i])]

\* s[i:j] with 1-based inclusive bounds
Slice(s, i, j) == IF j < i THEN <<>> ELSE SubSeq(s, i, j)

\* s[at:at+len(sub)] == sub
MatchesAt(s, sub, at) ==
    /\ at >= 1
    /\ at + Len(sub) - 1 <= Len(s)
    /\ \A k \in 1..Len(sub) : s[at + k - 1] = sub[k]

\* sub in s
Contains(s, sub) == \E at \in 1..(Len(s) + 1) : MatchesAt(s, sub, at)

\* s.find(sub, start): smallest index >= start where sub occurs, 0 if none
Find(s, sub, start) ==
    IF \E at \in start..(Len(s) + 1) : MatchesAt(s, sub, at)
    THEN CHOOSE at \in start..(Len(s) + 1) :
            /\ MatchesAt(s, sub, at)
            /\ \A b \in start..(at - 1) : ~MatchesAt(s, sub, b)
    ELSE 0

RECURSIVE LStrip(_)
LStrip(s) == IF s # <<>> /\ Head(s) \in Whitespace THEN LStrip(Tail(s)) ELSE s

RECURSIVE RStrip(_)
RStrip(s) ==
    IF s # <<>> /\ s[Len(s)] \in Whitespace THEN RStrip(SubSeq(s, 1, Len(s) - 1)) ELSE s

\* str.strip()
Strip(s) == RStrip(LStrip(s))

\* str.split(sep): leftmost, non-overlapping occurrences; empty pieces are kept
RECURSIVE SplitFrom(_, _, _)
SplitFrom(s, sep, start) ==
    LET at == Find(s, sep, start)
    IN IF at = 0
       THEN <<Slice(s, start, Len(s))>>
       ELSE <<Slice(s, start, at - 1)>> \o SplitFrom(s, sep, at + Len(sep))

Split(s, sep) == SplitFrom(s, sep, 1)

\* [f(x) for x in seq if cond(x)] helpers
RECURSIVE SelectNonEmpty(_)
SelectNonEmpty(ss) ==
    IF ss = <<>> THEN <<>>
    ELSE IF Head(ss) # <<>> THEN <<Head(ss)>> \o SelectNonEmpty(Tail(ss))
    ELSE SelectNonEmpty(Tail(ss))

----------------------------------------------------------------------------
(* Levenshtein.distance: the Wagner-Fischer rows *)

Min2(a, b) == IF a <= b THEN a ELSE b

RECURSIVE LevRow(_, _, _, _, _)
\* prev is the row for the first i-1 characters of a; row is the part of row i built so far
LevRow(prev, ch, b, row, j) ==
    IF j > Len(b) THEN row
    ELSE LET cost == IF ch = b[j] THEN 0 ELSE 1
             cell == Min2(Min2(prev[j + 1] + 1, row[j] + 1), prev[j] + cost)
             next == Append(row, cell)
         IN IF Len(next) = j + 1 THEN LevRow(prev, ch, b, next, j + 1) ELSE <<>>

RECURSIVE LevRows(_, _, _, _)
LevRows(a, b, prev, i) ==
    IF i > Len(a) THEN prev[Len(b) + 1]
    ELSE LET row == LevRow(prev, a[i], b, <<i>>, 1)
         IN IF Len(row) = Len(b) + 1 THEN LevRows(a, b, row, i + 1) ELSE -1

Levenshtein(a, b) == LevRows(a, b, [j \in 1..(Len(b) + 1) |-> j - 1], 1)

----------------------------------------------------------------------------
(* is_fuzzy_match *)

is_fuzzy_match_lt5(w, t) ==
    LET word_lower == Lower(w)
        term_lower == Lower(t)
        distance == Levenshtein(word_lower, term_lower)
    IN IF Contains(word_lower, term_lower) THEN TRUE
       ELSE IF Len(term_lower) < 5 /\ distance <= 1 THEN TRUE
       ELSE IF Len(term_lower) >= 5 /\ Len(term_lower) < 10 /\ distance <= 2 THEN TRUE
       ELSE IF Len(term_lower) >= 10 /\ distance <= 3 THEN TRUE
       ELSE FALSE

is_fuzzy_match(w, t) ==
    LET word_lower == Lower(w)
        term_lower == Lower(t)
        distance == Levenshtein(word_lower, term_lower)
    IN IF Contains(word_lower, term_lower) THEN TRUE
       ELSE IF Len(term_lower) <= 5 /\ distance <= 1 THEN TRUE
       ELSE IF Len(term_lower) > 5 /\ Len(term_lower) < 10 /\ distance <= 2 THEN TRUE
       ELSE IF Len(term_lower) >= 10 /\ distance <= 3 THEN TRUE
       ELSE FALSE

----------------------------------------------------------------------------
(* The stored word list (column ocr_data_json) and json.loads *)

\* One element of a stored JSON array.  shape says what the element is:
\*   "word"      an object with a "text" string and a "bbox" list
\*   "no_bbox"   an object with "text" but no "bbox" key
\*   "no_text"   an object without a "text" key
\*   "scalar"    not an object at all (a number, a string)
WordData(text, bbox) == [shape |-> "word", text |-> text, bbox |-> bbox]

\* The column holds SQL NULL ("NULL"), text that is not JSON ("empty" for '',
\* "garbage" otherwise), or a JSON document: an "array" of elements, an
\* "object" (iterating it yields its keys, which are strings: scalars), a
\* "number" or the JSON "null".
Stored(kind, items) == [kind |-> kind, items |-> items]

SqlNull == Stored("NULL", <<>>)
EmptyText == Stored("empty", <<>>)

\* json.dumps(words_data)
json_dumps(words_data) == Stored("array", words_data)

\* json.loads raises for None (TypeError) and for text that is not JSON
json_loads_raises(col) == col.kind \in {"NULL", "empty", "garbage"}

\* iterating the loaded value raises TypeError when it is not iterable
iter_raises(col) == col.kind \in {"number", "null"}

\* words_in_image after the try/except around json.loads
words_in_image_of(col) == IF json_loads_raises(col) THEN <<>> ELSE col.items

----------------------------------------------------------------------------
(* search_images: the query parser *)

AND_SEP == <<" ", "A", "N", "D", " ">>
OR_SEP == <<" ", "O", "R", " ">>
SPACE == <<" ">>

StripEach(ss) == [i \in 1..Len(ss) |-> Strip(ss[i])]
LowerEach(ss) == [i \in 1..Len(ss) |-> Lower(ss[i])]

\* request.args.get('q', '').lower().strip()
normalized_query(q) == Strip(Lower(q))

parse_type_or_first(nq) ==
    IF Contains(Upper(nq), OR_SEP) THEN "OR"
    ELSE IF Contains(Upper(nq), AND_SEP) THEN "AND"
    ELSE "OR"

\* search_type for a normalized query
parse_type(nq) ==
    IF Contains(Upper(nq), AND_SEP) THEN "AND"
    ELSE IF Contains(Upper(nq), OR_SEP) THEN "OR"
    ELSE "OR"

\* search_terms for a normalized query
parse_terms(nq) ==
    LowerEach(SelectNonEmpty(
        IF Contains(Upper(nq), AND_SEP) THEN StripEach(Split(Upper(nq), AND_SEP))
        ELSE IF Contains(Upper(nq), OR_SEP) THEN StripEach(Split(Upper(nq), OR_SEP))
        ELSE StripEach(Split(nq, SPACE))))

----------------------------------------------------------------------------
(* search_images: the scan of one image and the inclusion decision *)

\* the per-image accumulators of the loop body
NewScan ==
    [matched_words_data |-> <<>>, matched_word_bboxes |-> {},
     terms_found_count |-> 0, term_found |-> FALSE, raised |-> FALSE]

add_matched_word_always(acc, word_data) ==
    [acc EXCEPT !.matched_words_data = Append(@, word_data),
                !.matched_word_bboxes = @ \cup {word_data.bbox}]

\* bbox_tuple = tuple(word_data['bbox']); append unless the tuple was seen
add_matched_word(acc, word_data) ==
    IF word_data.bbox \notin acc.matched_word_bboxes
    THEN [acc EXCEPT !.matched_words_data = Append(@, word_data),
                     !.matched_word_bboxes = @ \cup {word_data.bbox}]
    ELSE acc

\* one iteration of "for word_data in words_in_image"
scan_word(acc, word_data, t) ==
    IF word_data.shape \in {"scalar", "no_text"}
    THEN [acc EXCEPT !.raised = TRUE]                  \* word_data['text'] raises
    ELSE IF is_fuzzy_match(word_data.text, t)
    THEN IF word_data.shape = "no_bbox"
         THEN [acc EXCEPT !.raised = TRUE]             \* word_data['bbox'] raises
         ELSE add_matched_word([acc EXCEPT !.term_found = TRUE], word_data)
    ELSE acc

RECURSIVE scan_words(_, _, _)
scan_words(acc, words, t) ==
    IF words = <<>> \/ acc.raised THEN acc
    ELSE scan_words(scan_word(acc, Head(words), t), Tail(words), t)

\* one iteration of "for term in search_terms"
scan_term(acc, words, t) ==
    LET after == scan_words([acc EXCEPT !.term_found = FALSE], words, t)
    IN IF after.term_found /\ ~after.raised
       THEN [after EXCEPT !.terms_found_count = @ + 1]
       ELSE after

RECURSIVE scan_terms_first_hit(_, _, _)
scan_terms_first_hit(acc, words, terms) ==
    IF terms = <<>> \/ acc.raised \/ acc.terms_found_count > 0 THEN acc
    ELSE scan_terms_first_hit(scan_term(acc, words, Head(terms)), words, Tail(terms))

RECURSIVE scan_terms(_, _, _)
scan_terms(acc, words, terms) ==
    IF terms = <<>> \/ acc.raised THEN acc
    ELSE scan_terms(scan_term(acc, words, Head(terms)), words, Tail(terms))

\* the loop body up to the inclusion decision, for one row
scan_image(row, terms) ==
    IF terms # <<>> /\ iter_raises(row.ocr_data_json)
    THEN [NewScan EXCEPT !.raised = TRUE]
    ELSE scan_terms(NewScan, words_in_image_of(row.ocr_data_json), terms)

include_image_any(type, terms_found_count, n_terms) ==
    terms_found_count > 0

\* the if / elif that appends to matches
include_image(type, terms_found_count, n_terms) ==
    \/ type = "AND" /\ terms_found_count = n_terms
    \/ type = "OR" /\ terms_found_count > 0

SearchMatch(row, acc) ==
    [id |-> row.id, display_name |-> row.display_name,
     internal_filename |-> row.internal_filename,
     matched_words |-> acc.matched_words_data]

\* "for image in all_images": [raised, matches]
RECURSIVE scan_images(_, _, _, _)
scan_images(rows, type, terms, matches) ==
    IF rows = <<>> THEN [raised |-> FALSE, matches |-> matches]
    ELSE LET acc == scan_image(Head(rows), terms)
         IN IF acc.raised THEN [raised |-> TRUE, matches |-> <<>>]
            ELSE scan_images(Tail(rows), type, terms,
                    IF include_image(type, acc.terms_found_count, Len(terms))
                    THEN Append(matches, SearchMatch(Head(rows), acc))
                    ELSE matches)

search_response_no_guard(q, rows) ==
    LET nq == normalized_query(q)
        terms == parse_terms(nq)
        out == scan_images(rows, parse_type(nq), terms, <<>>)
    IN IF terms = <<>> THEN [status |-> 200, body |-> <<>>]
       ELSE IF out.raised THEN [status |-> 500, body |-> <<>>]
       ELSE [status |-> 200, body |-> out.matches]

\* the response of GET /search?q=<q> over the rows of the images table; an
\* exception that leaves the view is answered 500 by Flask
search_response(q, rows) ==
    LET nq == normalized_query(q)
        terms == parse_terms(nq)
        out == scan_images(rows, parse_type(nq), terms, <<>>)
    IN IF nq = <<>> THEN [status |-> 400, body |-> <<>>]
       ELSE IF terms = <<>> THEN [status |-> 200, body |-> <<>>]
       ELSE IF out.raised THEN [status |-> 500, body |-> <<>>]
       ELSE [status |-> 200, body |-> out.matches]

\* GET /search for the pending query
search_images ==
    /\ request = [op |-> "pending_search"]
    /\ request' = [op |-> "search"]
    /\ search_type' = IF normalized_query(query) = <<>> THEN "none"
                      ELSE parse_type(normalized_query(query))
    /\ search_terms' = parse_terms(normalized_query(query))
    /\ response' = search_response(query, images)
    /\ UNCHANGED <<query, fuzzyVars, storeVars>>

----------------------------------------------------------------------------
(* Values of the variables a specification does not use *)

NoRequest == [op |-> "none"]
NoResponse == [status |-> 0, body |-> <<>>]

IdleFuzzy ==
    /\ word = <<>>
    /\ term = <<>>
    /\ edits = 0
    /\ fuzzy = FALSE

IdleSearch ==
    /\ query = <<>>
    /\ search_type = "none"
    /\ search_terms = <<>>

IdleStore ==
    /\ images = <<>>
    /\ seq = 0
    /\ files = {}
    /\ inserted = {}
    /\ nreq = 0

IdleHttp ==
    /\ response = NoResponse
    /\ request = NoRequest

----------------------------------------------------------------------------
(* SpecFuzzy: is_fuzzy_match called on a term and on words that are a few   *)
(* single-character edits away from it                                      *)

MaxEdits == 4

FuzzyBase == <<"a","b","c","d","e","f","g","h","i","j","k">>

\* term lengths on both sides of the branch boundaries 5|6 and 9|10
FuzzyTermLens == {1, 5, 6, 9, 10}

FuzzyTerms ==
    {SubSeq(FuzzyBase, 1, n) : n \in FuzzyTermLens}
        \cup {<<"A","b","C","d","e">>}

InitFuzzy ==
    /\ term \in FuzzyTerms
    /\ word = term
    /\ edits = 0
    /\ fuzzy = is_fuzzy_match(term, term)
    /\ IdleSearch /\ IdleStore /\ IdleHttp

Matched(w) ==
    /\ edits < MaxEdits
    /\ word' = w
    /\ edits' = edits + 1
    /\ fuzzy' = is_fuzzy_match(w, term)
    /\ UNCHANGED <<term, searchVars, storeVars, response, request>>

\* the caller passes a word in which one character was misread
MatchSubstituted ==
    \E i \in 1..Len(word) :
        /\ LowerChar(word[i]) # "z"
        /\ Matched([word EXCEPT ![i] = "Z"])

\* the caller passes a word that lost its first or last character
MatchShortened ==
    /\ Len(word) > 0
    /\ \E w \in {Tail(word), SubSeq(word, 1, Len(word) - 1)} : Matched(w)

\* the caller passes a word with an extra character in front or behind
MatchLengthened ==
    \E w \in {<<"z">> \o word, word \o <<"z">>} : Matched(w)

NextFuzzy == MatchSubstituted \/ MatchShortened \/ MatchLengthened

SpecFuzzy == InitFuzzy /\ [][NextFuzzy]_vars

\* The threshold table of the matcher, by term length
FuzzyThreshold(n) == IF n <= 5 THEN 1 ELSE IF n < 10 THEN 2 ELSE 3

FuzzyExpected(w, t) ==
    \/ Contains(Lower(w), Lower(t))
    \/ Levenshtein(Lower(w), Lower(t)) <= FuzzyThreshold(Len(t))

\* C2: is_fuzzy_match(w, t) is true exactly when the lowercased term is a
\* substring of the lowercased word or their edit distance is within the
\* threshold for the term's length (1 up to length 5, 2 for 6..9, 3 from 10).
\* (The distance used is also checked never to exceed the number of edits
\* that produced the word.)
C2_FuzzyMatchTable ==
    /\ fuzzy = FuzzyExpected(word, term)
    /\ Levenshtein(Lower(word), Lower(term)) <= edits

\* a ten-letter term matched a word three edits away that does not contain it
C2_Witness ==
    /\ Len(term) = 10
    /\ ~Contains(Lower(word), Lower(term))
    /\ Levenshtein(Lower(word), Lower(term)) = 3
    /\ fuzzy = TRUE

----------------------------------------------------------------------------
(* Rows of the images table used as search corpora *)

Digits == <<"0","1","2","3","4","5","6","7","8","9">>

\* str(n) for n >= 0
RECURSIVE IntToStr(_)
IntToStr(n) ==
    IF n < 10 THEN <<Digits[n + 1]>>
    ELSE IntToStr(n \div 10) \o <<Digits[(n % 10) + 1]>>

RECURSIVE JoinWith(_, _)
\* sep.join(ss)
JoinWith(ss, sep) ==
    IF ss = <<>> THEN <<>>
    ELSE IF Len(ss) = 1 THEN Head(ss)
    ELSE Head(ss) \o sep \o JoinWith(Tail(ss), sep)

Texts(words) == [i \in 1..Len(words) |-> words[i].text]

PNG == <<".", "p", "n", "g">>

\* a row as an upload of "img<i>.png" with the given word-list column leaves it
CorpusRow(i, col) ==
    [id |-> i,
     display_name |-> <<"i", "m", "g">> \o IntToStr(i) \o PNG,
     internal_filename |-> <<"i", "m", "g">> \o IntToStr(i) \o PNG,
     full_text |-> JoinWith(Texts(col.items), SPACE),
     ocr_data_json |-> col]

\* all sequences over S of length 0..n
RECURSIVE SeqsUpTo(_, _)
SeqsUpTo(S, n) ==
    IF n = 0 THEN {<<>>}
    ELSE LET shorter == SeqsUpTo(S, n - 1)
         IN shorter \cup {Append(q, x) : q \in {r \in shorter : Len(r) = n - 1}, x \in S}

\* the corpora whose i-th row holds cols[i]
CorporaOf(Cols, n) ==
    {[i \in 1..Len(cols) |-> CorpusRow(i, cols[i])] : cols \in SeqsUpTo(Cols, n)}

----------------------------------------------------------------------------
(* SpecQuery: GET /search on raw queries assembled from pieces *)

MaxPieces == 5

QueryPieces ==
    { <<"a">>, <<"S", "a", "n", "d">>, <<" ">>, <<"\t">>,
      <<" ", "A", "N", "D", " ">>, <<" ", "O", "r", " ">> }

RECURSIVE Flatten(_)
Flatten(ss) == IF ss = <<>> THEN <<>> ELSE Head(ss) \o Flatten(Tail(ss))

RawQueries == {Flatten(ps) : ps \in SeqsUpTo(QueryPieces, MaxPieces)}

BoxA == <<1, 2, 3, 4>>

QueryCorpora ==
    CorporaOf({json_dumps(<<WordData(<<"a">>, BoxA)>>)}, 1)

InitQuery ==
    /\ query \in RawQueries
    /\ images \in QueryCorpora
    /\ search_type = "none"
    /\ search_terms = <<>>
    /\ request = [op |-> "pending_search"]
    /\ response = NoResponse
    /\ seq = Len(images)
    /\ files = {} /\ inserted = {} /\ nreq = 0
    /\ IdleFuzzy

NextQuery == search_images

SpecQuery == InitQuery /\ [][NextQuery]_vars

Blank(q) == \A i \in 1..Len(q) : q[i] \in Whitespace

AllButLast(s) == SubSeq(s, 1, Len(s) - 1)

\* P is what splitting s at the leftmost, non-overlapping occurrences of sep gives
IsSplit(P, s, sep) ==
    /\ P # <<>>
    /\ JoinWith(P, sep) = s
    /\ \A i \in 1..(Len(P) - 1) : ~Contains(AllButLast(P[i] \o sep), sep)
    /\ ~Contains(P[Len(P)], sep)

LowerAnd == <<" ", "a", "n", "d", " ">>
LowerOr == <<" ", "o", "r", " ">>

\* C1: after trimming, a query containing ' AND ' (any case) is split on it
\* with mode AND; otherwise one containing ' OR ' is split on it with mode OR;
\* otherwise it is split on single spaces with mode OR; the terms are the
\* trimmed, lowercased, non-empty pieces, in order.
C1_ParsePrecedence ==
    (request.op = "search" /\ ~Blank(query)) =>
        LET lq == Strip(Lower(query))
            sep == IF Contains(lq, LowerAnd) THEN LowerAnd
                   ELSE IF Contains(lq, LowerOr) THEN LowerOr
                   ELSE SPACE
            P == Split(lq, sep)
        IN /\ search_type = (IF Contains(lq, LowerAnd) THEN "AND" ELSE "OR")
           /\ IsSplit(P, lq, sep)
           /\ search_terms = SelectNonEmpty(StripEach(P))
           /\ \A i \in 1..Len(search_terms) :
                 /\ search_terms[i] # <<>>
                 /\ search_terms[i][1] \notin Whitespace
                 /\ search_terms[i][Len(search_terms[i])] \notin Whitespace
                 /\ \A k \in 1..Len(search_terms[i]) :
                        search_terms[i][k] \notin DOMAIN ToLower

\* a query mixing both operators was parsed: AND, with the OR text inside a term
C1_Witness ==
    /\ request.op = "search"
    /\ search_type = "AND"
    /\ query = <<"a", " ", "A", "N", "D", " ", "S", "a", "n", "d", " ", "O", "r", " ", "a">>
    /\ search_terms = << <<"a">>, <<"s", "a", "n", "d", " ", "o", "r", " ", "a">> >>

----------------------------------------------------------------------------
(* SpecSearch: GET /search over corpora whose word lists are either stored  *)
(* as process_and_save_image writes them or cannot be deserialized          *)

MaxImages == 2
MaxTerms == 2

BoxB == <<5, 6, 7, 8>>

Cat == <<"c", "a", "t">>
Dog == <<"d", "o", "g">>

CatA == WordData(Cat, BoxA)
DogB == WordData(Dog, BoxB)
DogA == WordData(Dog, BoxA)       \* a second reading of the region of CatA

SearchCols ==
    { SqlNull, EmptyText, json_dumps(<<>>),
      json_dumps(<<CatA>>),
      json_dumps(<<CatA, DogB>>),
      json_dumps(<<CatA, DogA>>),
      json_dumps(<<CatA, CatA>>) }

\* "cat" equals a word, "at" is contained in it, "cog" is one edit from "dog"
SearchVocabulary == { Cat, <<"a", "t">>, <<"c", "o", "g">> }

SearchSeparators == { AND_SEP, LowerOr, SPACE }

SearchQueries ==
    {JoinWith(ts, sep) : ts \in (SeqsUpTo(SearchVocabulary, MaxTerms) \ {<<>>}),
                         sep \in SearchSeparators}

PendingSearch ==
    /\ search_type = "none"
    /\ search_terms = <<>>
    /\ request = [op |-> "pending_search"]
    /\ response = NoResponse
    /\ seq = Len(images)
    /\ files = {} /\ inserted = {} /\ nreq = 0
    /\ IdleFuzzy

InitSearch ==
    /\ query \in SearchQueries
    /\ images \in CorporaOf(SearchCols, MaxImages)
    /\ PendingSearch

NextSearch == search_images

SpecSearch == InitSearch /\ [][NextSearch]_vars

Searched == request.op = "search" /\ response.status = 200 /\ search_terms # <<>>

\* the words of a row: those of a well-formed stored list, none otherwise
WordsOf(row) ==
    IF row.ocr_data_json.kind = "array" THEN row.ocr_data_json.items ELSE <<>>

TermMatchesImage(t, row) ==
    \E k \in 1..Len(WordsOf(row)) : is_fuzzy_match(WordsOf(row)[k].text, t)

Returned(row) == \E m \in 1..Len(response.body) : response.body[m].id = row.id

\* C3: an image is in the result exactly when, in AND mode, every term
\* occurrence matches some word of the image (possibly different words in
\* different boxes) and, in OR mode, some term matches some word.
C3_InclusionRule ==
    /\ (request.op = "search" /\ ~Blank(query)) => Searched
    /\ Searched =>
        \A i \in 1..Len(images) :
            Returned(images[i]) <=>
                IF search_type = "AND"
                THEN \A k \in 1..Len(search_terms) :
                        TermMatchesImage(search_terms[k], images[i])
                ELSE \E k \in 1..Len(search_terms) :
                        TermMatchesImage(search_terms[k], images[i])

\* "cat AND cog" returned the image with cat and dog in separate boxes, and
\* not the image with cat alone
C3_Witness ==
    /\ Searched
    /\ search_type = "AND"
    /\ search_terms = << Cat, <<"c", "o", "g">> >>
    /\ Len(images) = 2
    /\ WordsOf(images[1]) = <<CatA, DogB>>
    /\ WordsOf(images[2]) = <<CatA>>
    /\ Returned(images[1])
    /\ ~Returned(images[2])

MatchesSomeTerm(w) ==
    \E k \in 1..Len(search_terms) : is_fuzzy_match(w.text, search_terms[k])

RowOf(m) == images[CHOOSE i \in 1..Len(images) : images[i].id = m.id]

\* C4: in every returned image, matched_words has no two entries with the
\* same bounding box, holds only words of the image that match a term, and
\* represents the box of every matching word of the image exactly once.
C4_MatchedWordsDedup ==
    Searched =>
        \A m \in 1..Len(response.body) :
            LET mw == response.body[m].matched_words
                ws == WordsOf(RowOf(response.body[m]))
            IN /\ \A i, j \in 1..Len(mw) : mw[i].bbox = mw[j].bbox => i = j
               /\ \A i \in 1..Len(mw) :
                     /\ \E k \in 1..Len(ws) : ws[k] = mw[i]
                     /\ MatchesSomeTerm(mw[i])
               /\ \A k \in 1..Len(ws) :
                     MatchesSomeTerm(ws[k]) =>
                        Cardinality({i \in 1..Len(mw) : mw[i].bbox = ws[k].bbox}) = 1

\* two terms matched the one annotation of an image that lists it twice
C4_Witness ==
    /\ Searched
    /\ search_terms = << Cat, <<"a", "t">> >>
    /\ \E m \in 1..Len(response.body) :
          /\ WordsOf(RowOf(response.body[m])) = <<CatA, CatA>>
          /\ response.body[m].matched_words = <<CatA>>

PermutationsOf(ts) ==
    {[i \in 1..Len(ts) |-> ts[p[i]]] : p \in Permutations(1..Len(ts))}

AsSet(sq) == {sq[i] : i \in 1..Len(sq)}

Boxes(mw) == {mw[i].bbox : i \in 1..Len(mw)}

Ids(body) == [m \in 1..Len(body) |-> body[m].id]

\* C7 as stated: any permutation of the terms gives the same images in the
\* same order and, per image, the same set of matched annotations (text and
\* bounding box).
C7_TermOrderIrrelevant ==
    Searched =>
        \A ts \in PermutationsOf(search_terms) :
            LET other == scan_images(images, search_type, ts, <<>>).matches
            IN /\ Ids(other) = Ids(response.body)
               /\ \A m \in 1..Len(other) :
                     AsSet(other[m].matched_words)
                        = AsSet(response.body[m].matched_words)

\* C7 as amended: any permutation of the terms gives the same images in the
\* same order and, per image, the same set of matched bounding boxes.
C7_TermOrderSameBoxes ==
    Searched =>
        \A ts \in PermutationsOf(search_terms) :
            LET other == scan_images(images, search_type, ts, <<>>).matches
            IN /\ Ids(other) = Ids(response.body)
               /\ \A m \in 1..Len(other) :
                     Boxes(other[m].matched_words)
                        = Boxes(response.body[m].matched_words)

\* two different terms were searched and an image with two matched boxes returned
C7_Witness ==
    /\ Searched
    /\ Len(search_terms) = 2
    /\ search_terms[1] # search_terms[2]
    /\ \E m \in 1..Len(response.body) :
          Cardinality(Boxes(response.body[m].matched_words)) = 2

----------------------------------------------------------------------------
(* SpecStored: GET /search over corpora whose word-list column may hold     *)
(* anything a TEXT column can: NULL, text that is not JSON, and JSON of     *)
(* another shape than a list of {text, bbox} objects                        *)

\* {"text": "cat"} as an element: there is no "bbox" key
CatNoBox == [shape |-> "no_bbox", text |-> Cat, bbox |-> <<>>]
\* {"bbox": [1, 2, 3, 4]} as an element: there is no "text" key
BoxNoText == [shape |-> "no_text", text |-> <<>>, bbox |-> BoxA]
\* a string or number where an object is expected
Scalar == [shape |-> "scalar", text |-> <<>>, bbox |-> <<>>]

StoredCols ==
    { SqlNull, EmptyText, Stored("garbage", <<>>),
      Stored("number", <<>>),                  \* 5
      Stored("null", <<>>),                    \* null
      Stored("object", <<>>),                  \* {}
      Stored("object", <<Scalar>>),            \* {"text": "cat"}: iterates the key
      json_dumps(<<Scalar>>),                  \* ["cat"]
      json_dumps(<<CatNoBox>>),                \* [{"text": "cat"}]
      json_dumps(<<BoxNoText>>),               \* [{"bbox": [1, 2, 3, 4]}]
      json_dumps(<<CatA>>),
      json_dumps(<<CatA, DogB>>) }

InitStored ==
    /\ query \in SearchQueries
    /\ images \in CorporaOf(StoredCols, MaxImages)
    /\ PendingSearch

NextStored == search_images

SpecStored == InitStored /\ [][NextStored]_vars

\* a well-formed sequence of objects each having a text and a bbox
WellFormed(col) ==
    /\ col.kind = "array"
    /\ \A k \in 1..Len(col.items) : col.items[k].shape = "word"

\* the corpus with every absent or malformed word list replaced by an empty one
Repaired(rows) ==
    [i \in 1..Len(rows) |->
        IF WellFormed(rows[i].ocr_data_json) THEN rows[i]
        ELSE [rows[i] EXCEPT !.ocr_data_json = json_dumps(<<>>)]]

\* C6: with absent or malformed stored word lists in the corpus (JSON of the
\* wrong shape included) search completes without raising, never returns
\* such a record, and answers for the others as if it had no words.
C6_MalformedTolerated ==
    (request.op = "search" /\ ~Blank(query)) =>
        /\ response.status = 200
        /\ \A i \in 1..Len(images) :
              ~WellFormed(images[i].ocr_data_json) => ~Returned(images[i])
        /\ response.body = search_response(query, Repaired(images)).body

----------------------------------------------------------------------------
(* The record store (table images) and the upload folder *)

ALLOWED_EXTENSIONS ==
    { <<"p", "n", "g">>, <<"j", "p", "g">>, <<"j", "p", "e", "g">>, <<"w", "e", "b", "p">> }

DOT == <<".">>

LastDot(s) == CHOOSE i \in 1..Len(s) : s[i] = "." /\ \A j \in (i + 1)..Len(s) : s[j] # "."

\* filename.rsplit('.', 1) of a name that contains a dot
RSplitDot(s) == << Slice(s, 1, LastDot(s) - 1), Slice(s, LastDot(s) + 1, Len(s)) >>

allowed_file(filename) ==
    /\ Contains(filename, DOT)
    /\ Lower(RSplitDot(filename)[2]) \in ALLOWED_EXTENSIONS

\* the upload folder is a set of [name, bytes] with one entry per name
FileExists(fs, name) == \E f \in fs : f.name = name

FileBytes(fs, name) == (CHOOSE f \in fs : f.name = name).bytes

\* open(filepath, 'wb') and write
write_file(fs, name, bytes) ==
    {f \in fs : f.name # name} \cup {[name |-> name, bytes |-> bytes]}

\* os.remove(filepath)
remove_file(fs, name) == {f \in fs : f.name # name}

\* the UNIQUE constraint on internal_filename, for a row other than id
NameTaken(rows, name, id) ==
    \E i \in 1..Len(rows) : rows[i].internal_filename = name /\ rows[i].id # id

HasRow(rows, id) == \E i \in 1..Len(rows) : rows[i].id = id

RowById(rows, id) == rows[CHOOSE i \in 1..Len(rows) : rows[i].id = id]

\* DELETE FROM images WHERE id = ?
delete_row(rows, id) == SelectSeq(rows, LAMBDA r : r.id # id)

\* words_data built from the OCR engine's (bbox, text, conf) triples
words_data_of(ocr_results) ==
    [i \in 1..Len(ocr_results) |->
        LET tl == ocr_results[i].bbox[1]
            br == ocr_results[i].bbox[3]
        IN WordData(Lower(ocr_results[i].text),
                    <<tl[1], tl[2], br[1] - tl[1], br[2] - tl[2]>>)]

OcrTexts(ocr_results) == [i \in 1..Len(ocr_results) |-> ocr_results[i].text]

\* process_and_save_image: [status, raised, files, full_text, ocr_data_json].
\* env says which of the steps fail: decoding (400), the OCR engine (500),
\* writing the file (the OSError leaves the function)
process_and_save_image(fs, upload, env, internal_filename) ==
    LET failed(st, raised) ==
            [status |-> st, raised |-> raised, files |-> fs,
             full_text |-> <<>>, ocr_data_json |-> EmptyText]
    IN IF ~env.decodable THEN failed(400, FALSE)
       ELSE IF ~env.ocr_ok THEN failed(500, FALSE)
       ELSE IF ~env.write_ok THEN failed(0, TRUE)
       ELSE [status |-> 200, raised |-> FALSE,
             files |-> write_file(fs, internal_filename, upload.bytes),
             full_text |-> Lower(JoinWith(OcrTexts(upload.ocr), SPACE)),
             ocr_data_json |-> json_dumps(words_data_of(upload.ocr))]

TEMP == <<"t", "e", "m", "p", "_">>

Outcome(st, rows, sq, fs, ins) ==
    [status |-> st, images |-> rows, seq |-> sq, files |-> fs, inserted |-> ins]

History(row, upload, st) ==
    [id |-> row.id, bytes |-> upload.bytes, status |-> st,
     internal_filename |-> row.internal_filename,
     full_text |-> row.full_text, ocr_data_json |-> row.ocr_data_json]

\* upload_image with action=new_copy, after the checks of the file part
upload_new_copy(rows, sq, fs, upload, env) ==
    LET display_name == upload.filename
        new_id == sq + 1
        placeholder == [id |-> new_id, display_name |-> display_name,
                        internal_filename |-> TEMP \o display_name,
                        full_text |-> <<>>, ocr_data_json |-> EmptyText]
        reserved == Append(rows, placeholder)
        name_parts == RSplitDot(display_name)
        internal_filename == name_parts[1] \o <<"_">> \o IntToStr(new_id) \o DOT \o name_parts[2]
        result == process_and_save_image(fs, upload, env, internal_filename)
        final == [placeholder EXCEPT !.internal_filename = internal_filename,
                                     !.full_text = result.full_text,
                                     !.ocr_data_json = result.ocr_data_json]
    IN IF NameTaken(rows, TEMP \o display_name, 0)
       THEN Outcome(500, rows, sq, fs, {})                       \* INSERT raises
       ELSE IF result.raised
       THEN Outcome(500, reserved, new_id, result.files,
                    {History(placeholder, upload, 500)})
       ELSE IF result.status # 200
       THEN Outcome(result.status, rows, new_id, result.files, {})
       ELSE IF NameTaken(reserved, internal_filename, new_id)
       THEN Outcome(500, reserved, new_id, result.files,         \* UPDATE raises
                    {History(placeholder, upload, 500)})
       ELSE Outcome(201, Append(rows, final), new_id, result.files,
                    {History(final, upload, 201)})

\* upload_image without action, after the checks of the file part
upload_plain(rows, sq, fs, upload, env) ==
    LET display_name == upload.filename
        result == process_and_save_image(fs, upload, env, display_name)
        row == [id |-> sq + 1, display_name |-> display_name,
                internal_filename |-> display_name,
                full_text |-> result.full_text,
                ocr_data_json |-> result.ocr_data_json]
    IN IF FileExists(fs, display_name)
       THEN Outcome(409, rows, sq, fs, {})
       ELSE IF result.raised
       THEN Outcome(500, rows, sq, result.files, {})
       ELSE IF result.status # 200
       THEN Outcome(result.status, rows, sq, result.files, {})
       ELSE IF NameTaken(rows, display_name, 0)
       THEN Outcome(400, rows, sq, result.files, {})             \* IntegrityError
       ELSE Outcome(201, Append(rows, row), sq + 1, result.files,
                    {History(row, upload, 201)})

\* POST /upload
upload_outcome(rows, sq, fs, upload, env) ==
    IF ~upload.has_file THEN Outcome(400, rows, sq, fs, {})
    ELSE IF upload.filename = <<>> THEN Outcome(400, rows, sq, fs, {})
    ELSE IF ~allowed_file(upload.filename) THEN Outcome(400, rows, sq, fs, {})
    ELSE IF upload.action = "new_copy" THEN upload_new_copy(rows, sq, fs, upload, env)
    ELSE upload_plain(rows, sq, fs, upload, env)

delete_outcome_keeps_file(rows, sq, fs, image_id, remove_ok) ==
    IF ~HasRow(rows, image_id) THEN Outcome(404, rows, sq, fs, {})
    ELSE Outcome(200, delete_row(rows, image_id), sq, fs, {})

\* DELETE /image/<image_id>; remove_ok says whether os.remove succeeds
delete_outcome(rows, sq, fs, image_id, remove_ok) ==
    IF ~HasRow(rows, image_id) THEN Outcome(404, rows, sq, fs, {})
    ELSE LET internal_filename == RowById(rows, image_id).internal_filename
             remaining == delete_row(rows, image_id)
         IN IF ~FileExists(fs, internal_filename)
            THEN Outcome(200, remaining, sq, fs, {})
            ELSE IF ~remove_ok
            THEN Outcome(500, remaining, sq, fs, {})
            ELSE Outcome(200, remaining, sq, remove_file(fs, internal_filename), {})

----------------------------------------------------------------------------
(* SpecStore: sequences of plain uploads, new_copy uploads and deletes *)

MaxUploads == 2

A_PNG == <<"a">> \o PNG
A_2_PNG == <<"a", "_", "2">> \o PNG
TEMP_A_PNG == TEMP \o A_PNG

UploadNames == { <<>>, A_PNG, A_2_PNG, TEMP_A_PNG, <<"a", ".", "t", "x", "t">>, <<"a">> }

Quad(x0, y0, x1, y1) == << <<x0, y0>>, <<x1, y0>>, <<x1, y1>>, <<x0, y1>> >>

OcrResults ==
    { <<>>,
      << [bbox |-> Quad(1, 2, 4, 6), text |-> <<"C", "a", "t">>, conf |-> 1] >> }

Envs == [decodable : BOOLEAN, ocr_ok : BOOLEAN, write_ok : BOOLEAN]

InitStore ==
    /\ images = <<>>
    /\ seq = 0
    /\ files = {}
    /\ inserted = {}
    /\ nreq = 0
    /\ response = NoResponse
    /\ request = NoRequest
    /\ IdleFuzzy /\ IdleSearch

Apply(out) ==
    /\ images' = out.images
    /\ seq' = out.seq
    /\ files' = out.files
    /\ inserted' = {h \in inserted : HasRow(out.images, h.id)} \cup out.inserted
    /\ response' = [status |-> out.status, body |-> <<>>]

\* one POST /upload; envs are the failures the request may meet
Upload(envs) ==
    /\ nreq < MaxUploads
    /\ \E has_file \in BOOLEAN, filename \in UploadNames, action \in {"none", "new_copy"},
          ocr \in OcrResults, env \in envs :
          LET upload == [has_file |-> has_file, filename |-> filename, action |-> action,
                         bytes |-> nreq + 1, ocr |-> ocr]
          IN Apply(upload_outcome(images, seq, files, upload, env))
    /\ request' = [op |-> "upload", id |-> 0]
    /\ nreq' = nreq + 1
    /\ UNCHANGED <<fuzzyVars, searchVars>>

\* one DELETE /image/<image_id>; oks says whether os.remove may fail
Delete(oks) ==
    /\ \E image_id \in 1..(seq + 1), remove_ok \in oks :
          /\ Apply(delete_outcome(images, seq, files, image_id, remove_ok))
          /\ request' = [op |-> "delete", id |-> image_id]
    /\ UNCHANGED <<nreq, fuzzyVars, searchVars>>

upload_image == Upload(Envs)

delete_image == Delete(BOOLEAN)

NextStore == upload_image \/ delete_image

SpecStore == InitStore /\ [][NextStore]_vars

(* SpecRequests: the same requests with a working upload folder: image     *)
(* decoding and the OCR engine may fail, writing and removing files do not *)

upload_image_disk_ok == Upload({env \in Envs : env.write_ok})

delete_image_disk_ok == Delete({TRUE})

NextRequests == upload_image_disk_ok \/ delete_image_disk_ok

SpecRequests == InitStore /\ [][NextRequests]_vars

UploadOf(row) == CHOOSE h \in inserted : h.id = row.id

\* C8: between requests every record in the store was created by an upload
\* that answered 201 and carries that upload's final internal_filename,
\* full_text and word list; no 'temp_<display_name>' placeholder is left by
\* an upload that answered with an error.
C8_RecordsOnlyFromSuccessfulUploads ==
    \A i \in 1..Len(images) :
        /\ \E h \in inserted : h.id = images[i].id
        /\ UploadOf(images[i]).status = 201
        /\ UploadOf(images[i]).internal_filename = images[i].internal_filename
        /\ UploadOf(images[i]).full_text = images[i].full_text
        /\ UploadOf(images[i]).ocr_data_json = images[i].ocr_data_json
        /\ images[i].internal_filename # TEMP \o images[i].display_name

\* C10: no two records share an internal_filename, and the bytes stored
\* under a record's internal_filename are the bytes uploaded for that record
\* (no upload overwrites the file backing another record).
C10_InternalFilenameKeysBytes ==
    /\ \A i, j \in 1..Len(images) :
          images[i].internal_filename = images[j].internal_filename => i = j
    /\ \A i \in 1..Len(images) :
          FileExists(files, images[i].internal_filename) =>
              FileBytes(files, images[i].internal_filename) = UploadOf(images[i]).bytes

DeleteEffect ==
    LET image_id == request'.id
        gone == RowById(images, image_id)
    IN /\ HasRow(images, image_id) <=> response'.status # 404
       /\ response'.status = 404 => images' = images /\ files' = files
       /\ response'.status = 200 =>
             /\ ~HasRow(images', image_id)
             /\ ~FileExists(files', gone.internal_filename)
             /\ images' = SelectSeq(images, LAMBDA r : r # gone)
             /\ files' = {f \in files : f.name # gone.internal_filename}
             /\ \A i \in 1..Len(images') :
                   /\ \E k \in 1..Len(images) : images[k] = images'[i]
                   /\ \A f \in files :
                         f.name = images'[i].internal_filename => f \in files'

\* C9: a DELETE answered 200 removes the record and the file named by its
\* internal_filename and leaves every other record and file as it was; a
\* DELETE of an id not in the store is answered 404 and changes nothing.
C9_DeleteFrame == [][request'.op = "delete" => DeleteEffect]_vars

\* a DELETE answered 200 removed a record and its file while another record
\* and its file stayed
C9_Witness ==
    /\ request.op = "delete"
    /\ response.status = 200
    /\ Len(images) = 1
    /\ seq = 2
    /\ FileExists(files, images[1].internal_filename)
    /\ Cardinality(files) = 1

====
